---- MODULE Spec2Model ----
(***************************************************************************)
(* A model of lama (src/main.go): an HTTP file server that logs every      *)
(* request through a buffered channel drained by one renderer goroutine,   *)
(* and optionally accepts uploads that are written to a temporary file     *)
(* and renamed into place.                                                 *)
(*                                                                         *)
(* Library semantics the program relies on are modelled by what they do:   *)
(*   - a buffered Go channel: send blocks when the buffer is full, receive *)
(*     blocks when it is empty, FIFO;                                      *)
(*   - http.Handle("/", h) on the default ServeMux: a request whose path   *)
(*     is not equal to its cleaned form is answered with a 301 redirect    *)
(*     and never reaches h.  The ServeMux of Go 1.21 and before cleans the *)
(*     decoded path (URL.Path), the one of Go 1.22 and later the escaped   *)
(*     path (URL.EscapedPath()); which one a build has is its toolchain's  *)
(*     and go.mod's choice, so both are modelled;                          *)
(*   - Request.FormFile: fails when the Content-Type carries no boundary   *)
(*     parameter or the form has no such file field;                       *)
(*   - os.CreateTemp: creates a file under a name that does not exist,     *)
(*     made of the pattern and a random 32 bit number; Spec takes the      *)
(*     names of one run to be distinct (no number is drawn twice),         *)
(*     SpecReuse lets a number be drawn again once its name is free;       *)
(*   - os.Rename / os.Remove on a POSIX file system: atomic, by name.      *)
(***************************************************************************)
EXTENDS Naturals, Integers, Sequences, FiniteSets

(***************************************************************************)
(* Bounds of the model and constants of the program.                       *)
(***************************************************************************)
\* capacity of the Logger channel: make(chan *http.Request, 10)
QueueCap == 10
\* number of requests one client sends over a single connection
MaxBurst == 12
\* number of chunks io.Copy moves for one body
BodyLen == 2
\* number of names os.CreateTemp draws its random name from
NumTmp == 2

StatusOK == 200
StatusMovedPermanently == 301
StatusBadRequest == 400
StatusNotFound == 404
StatusInternalServerError == 500

\* a directory entry names the file it leads to by the request that created
\* it; <<0>> is a file that was there before the server started
NoFile == <<>>
OldFile == <<0>>
File(r) == <<r>>
NoReq == <<>>

VARIABLES
    flags,      \* the command line: dontDump, dontServe, enableUpload
    mux,        \* the ServeMux of the build: "go121" or "go122"
    reqs,       \* the requests the clients send, by arrival number
    pc,         \* position of each request's goroutine
    status,     \* status code written for each request (0: none yet)
    err,        \* the call whose error ended the upload ("" if none)
    served,     \* the handlers each request was passed to, in order
    tmpname,    \* tmpfile.Name() of each upload ("" before CreateTemp)
    used,       \* history: the names os.CreateTemp has handed out
    written,    \* chunks io.Copy has written to each upload's temp file
    fs,         \* the file system: location -> file (NoFile if absent)
    Logger,     \* buffer of the channel h.Logger
    enqueued,   \* history: the requests in the order their send completed
    rpc,        \* position of the renderer goroutine
    cur,        \* the request the renderer received and is printing
    output      \* the lines printed so far

vars == <<flags, mux, reqs, pc, status, err, served, tmpname, used, written,
          fs, Logger, enqueued, rpc, cur, output>>

(***************************************************************************)
(* Paths.  A URL path or file name is the sequence of its elements.        *)
(***************************************************************************)
RECURSIVE CleanFrom(_, _)
\* path.Clean of a rooted path: "." and "" dropped, ".." pops, and is
\* dropped at the root
CleanFrom(stack, rest) ==
    IF rest = <<>> THEN stack
    ELSE LET e == Head(rest) IN
         IF e = "." \/ e = "" THEN CleanFrom(stack, Tail(rest))
         ELSE IF e = ".."
              THEN CleanFrom(IF stack = <<>> THEN stack
                             ELSE SubSeq(stack, 1, Len(stack) - 1), Tail(rest))
              ELSE CleanFrom(Append(stack, e), Tail(rest))

cleanPath(p) == CleanFrom(<<>>, p)

RECURSIVE JoinFrom(_, _)
\* filepath.Join(dir, name), relative to dir: ".." pops an element of name,
\* and climbs out of dir once none is left
JoinFrom(stack, rest) ==
    IF rest = <<>> THEN stack
    ELSE LET e == Head(rest) IN
         IF e = "." \/ e = "" THEN JoinFrom(stack, Tail(rest))
         ELSE IF e = ".."
              THEN JoinFrom(IF stack = <<>> \/ stack[Len(stack)] = ".."
                            THEN Append(stack, "..")
                            ELSE SubSeq(stack, 1, Len(stack) - 1), Tail(rest))
              ELSE JoinFrom(Append(stack, e), Tail(rest))

Join(filename) == JoinFrom(<<>>, filename)

\* filepath.Base, applied by mime/multipart to a part's declared file name
Base(name) == IF name = <<>> THEN <<>> ELSE <<name[Len(name)]>>

\* the directories that exist: dir itself and its ancestors
IsDir(loc) == \A i \in 1..Len(loc) : loc[i] = ".."
ParentExists(loc) == loc # <<>> /\ IsDir(SubSeq(loc, 1, Len(loc) - 1))
InsideDir(loc) == loc = <<>> \/ loc[1] # ".."

(***************************************************************************)
(* Requests.                                                               *)
(***************************************************************************)
MultipartBare == "multipart/form-data"
MultipartBoundary == "multipart/form-data; boundary=X"

Foo == <<"foo.txt">>
Traversal == <<"..", "..", "x">>
EscTraversal == <<"%2e%2e", "%2e%2e", "x">>
NoDir == <<"nodir", "foo.txt">>

Request(m, p, c, f) == [method |-> m, path |-> p, ct |-> c, file |-> f]

\* what the renderer reads of a request: RequestURI (scheme and authority in
\* front of the path when the request line has an absolute URI), Host,
\* URL.Host, TransferEncoding, Close and the keys of Header
OriginForm == <<"/foo.txt">>
AbsoluteForm(scheme) == <<scheme, "u", "/foo.txt">>
RequestHead(u, h, uh, te, cl, hd) ==
    [requestURI |-> u, host |-> h, urlhost |-> uh, te |-> te, close |-> cl,
     header |-> hd]
PlainHead == RequestHead(OriginForm, "h", "", <<>>, FALSE, {"User-Agent"})

\* net/http's readRequest: with an absolute URI both Host and URL.Host are
\* its authority; else URL.Host is empty and Host is the Host header, which
\* a HTTP/1.0 request may lack
RequestHeads ==
    {RequestHead(u.uri, u.host, u.urlhost, te, cl, hd) :
        u \in {[uri |-> OriginForm, host |-> "h", urlhost |-> ""],
               [uri |-> OriginForm, host |-> "", urlhost |-> ""],
               [uri |-> AbsoluteForm("http://"), host |-> "u", urlhost |-> "u"],
               [uri |-> AbsoluteForm("https://"), host |-> "u", urlhost |-> "u"]},
        te \in {<<>>, <<"chunked">>},
        cl \in BOOLEAN,
        hd \in {{}, {"Accept", "User-Agent"}}}

OnConnWith(q, c, h) == [conn |-> c, method |-> q.method, path |-> q.path,
                       ct |-> q.ct, file |-> q.file, head |-> h]
OnConn(q, c) == OnConnWith(q, c, PlainHead)

GetFoo == Request("GET", Foo, "", <<>>)
PutFoo == Request("PUT", Foo, "", <<>>)
PutTraversal == Request("PUT", Traversal, "", <<>>)
PutEscTraversal == Request("PUT", EscTraversal, "", <<>>)
PutNoDir == Request("PUT", NoDir, "", <<>>)
PostForm == Request("POST", <<>>, MultipartBoundary, Foo)
PostFormTraversal == Request("POST", <<>>, MultipartBoundary, Traversal)
PostBare == Request("POST", <<>>, MultipartBare, Foo)
PostBareNoFile == Request("POST", <<>>, MultipartBare, <<>>)
PostPlain == Request("POST", Foo, "text/plain", <<>>)

ReqKinds == {GetFoo, PutFoo, PutTraversal, PutEscTraversal, PutNoDir, PostForm,
             PostFormTraversal, PostBare, PostBareNoFile, PostPlain}

\* url.URL: path is the escaped path as sent (EscapedPath()), URLPath the
\* decoded one (Path)
Unescape(e) == IF e = "%2e%2e" THEN ".." ELSE e
URLPath(q) == [i \in 1..Len(q.path) |-> Unescape(q.path[i])]

\* the body of request r (and the content of its form file): BodyLen chunks
\* that no other request sends
Body(r) == [i \in 1..BodyLen |-> <<r, i>>]
OldContent == << <<0, 1>> >>

TmpPool == <<"lama-upload-1", "lama-upload-2", "lama-upload-3", "lama-upload-4">>
TmpNames == {TmpPool[i] : i \in 1..NumTmp}

\* every place of the file system a request of ReqKinds can name
Locations ==
    {Join(URLPath(q)) : q \in ReqKinds}
    \cup {Join(cleanPath(URLPath(q))) : q \in ReqKinds}
    \cup {Join(q.file) : q \in ReqKinds}
    \cup {Join(Base(q.file)) : q \in ReqKinds}
    \cup {<<t>> : t \in TmpNames}

Reqs == DOMAIN reqs

\* what is read from the file a directory entry leads to
Content(f) ==
    IF f = NoFile THEN <<>>
    ELSE IF f = OldFile THEN OldContent
    ELSE SubSeq(Body(f[1]), 1, written[f[1]])

(***************************************************************************)
(* main: the handler chain built from the flags.                           *)
(***************************************************************************)
DumpRequest == ~flags.dontDump

\* a handler chain that is built even with --dont-serve
DelegateDespiteDontServe ==
    IF flags.enableUpload THEN "handleUploads" ELSE "FileServer"

Delegate ==
    IF flags.dontServe THEN "nil"
    ELSE IF flags.enableUpload THEN "handleUploads"
    ELSE "FileServer"

Flags == [dontDump : BOOLEAN, dontServe : BOOLEAN, enableUpload : BOOLEAN]

\* the clients that send one request each at the same time, each over a
\* connection of its own
Clients == {1, 2}

\* the uploads one client sends one after the other over its connection
Sequence == {1, 2}
PutKinds == {PutFoo, PutNoDir}

\* the requests of one run: a burst of plain requests over one connection,
\* one request of any kind from each of the clients, two uploads one after
\* the other over one connection, or two GETs with any request line and
\* headers over one connection
Scenarios ==
    {[r \in 1..MaxBurst |-> OnConn(GetFoo, 1)]}
    \cup {[r \in Clients |-> OnConn(k[r], r)] : k \in [Clients -> ReqKinds]}
    \cup {[r \in Sequence |-> OnConn(k[r], 1)] : k \in [Sequence -> PutKinds]}
    \cup {[r \in Sequence |-> OnConnWith(GetFoo, 1, IF r = 1 THEN h ELSE PlainHead)] :
             h \in RequestHeads}

Init ==
    /\ flags \in Flags
    /\ mux \in {"go121", "go122"}
    /\ reqs \in Scenarios
    /\ pc = [r \in DOMAIN reqs |-> "new"]
    /\ status = [r \in DOMAIN reqs |-> 0]
    /\ err = [r \in DOMAIN reqs |-> ""]
    /\ served = [r \in DOMAIN reqs |-> <<>>]
    /\ tmpname = [r \in DOMAIN reqs |-> ""]
    /\ used = {}
    /\ written = [r \in DOMAIN reqs |-> 0]
    /\ \E old \in {NoFile, OldFile} :
          fs = [l \in Locations |-> IF l = Foo THEN old ELSE NoFile]
    /\ Logger = <<>>
    /\ enqueued = <<>>
    /\ rpc = "recv"
    /\ cur = NoReq
    /\ output = <<>>

(***************************************************************************)
(* The request goroutines.                                                 *)
(***************************************************************************)
\* a return that answers 200 whatever the handler wrote before
ReturnedOK(st) == StatusOK

\* the status the client gets once the handler has returned: 200 unless the
\* handler wrote another one
Returned(st) == IF st = 0 THEN StatusOK ELSE st

\* http.FileServer(http.Dir(dir)): reads, never writes
FileServerStatus(q) ==
    IF IsDir(Join(cleanPath(URLPath(q)))) \/ fs[Join(cleanPath(URLPath(q)))] # NoFile
    THEN StatusOK ELSE StatusNotFound

\* the default ServeMux passes on only requests whose path is clean
MuxPasses(q) ==
    IF mux = "go121" THEN cleanPath(URLPath(q)) = URLPath(q)
    ELSE cleanPath(q.path) = q.path

\* the goroutine of r's connection reads request r, once it has answered the
\* requests before it on that connection, and the ServeMux routes it: to
\* debugHandler.ServeHTTP, or to a redirect
Accept(r) ==
    /\ pc[r] = "new"
    /\ \A o \in Reqs : (o < r /\ reqs[o].conn = reqs[r].conn) => pc[o] = "done"
    /\ IF MuxPasses(reqs[r])
       THEN /\ pc' = [pc EXCEPT ![r] = "send"]
            /\ UNCHANGED <<status, served>>
       ELSE /\ pc' = [pc EXCEPT ![r] = "done"]
            /\ status' = [status EXCEPT ![r] = StatusMovedPermanently]
            /\ served' = [served EXCEPT ![r] = <<"redirect">>]
    /\ UNCHANGED <<flags, mux, reqs, err, tmpname, used, written, fs, Logger, enqueued,
                   rpc, cur, output>>

\* a send that still proceeds when the buffer is full
CanSendWhenFull == Len(Logger) <= QueueCap

\* a channel without buffer space to spare: a send proceeds only into an
\* empty buffer
CanSendIntoEmpty == Logger = <<>>

\* h.Logger <- req proceeds only while the buffer has room
CanSend == Len(Logger) < QueueCap

\* ServeHTTP: h.Logger <- req
Send(r) ==
    /\ pc[r] = "send"
    /\ CanSend
    /\ Logger' = Append(Logger, r)
    /\ enqueued' = Append(enqueued, r)
    /\ pc' = [pc EXCEPT ![r] = "delegate"]
    /\ UNCHANGED <<flags, mux, reqs, status, err, served, tmpname, used, written, fs,
                   rpc, cur, output>>

\* a switch that takes every POST for a form upload
UploadCaseAnyPost(q) ==
    IF q.method = "PUT" THEN "put"
    ELSE IF q.method = "POST" THEN "form"
    ELSE "pass"

\* the case of handleUploads' switch a request falls into
UploadCase(q) ==
    IF q.method = "PUT" THEN "put"
    ELSE IF q.method = "POST" /\ q.ct = MultipartBare THEN "form"
    ELSE "pass"

\* a FormFile whose error is not looked at
FormFileUnchecked(r) ==
    [err |-> FALSE, filename |-> Base(reqs[r].file), body |-> Body(r)]

\* r.FormFile("file") for the body of request r
FormFile(r) ==
    IF reqs[r].ct # MultipartBoundary \/ reqs[r].file = <<>>
    THEN [err |-> TRUE, filename |-> <<>>, body |-> <<>>]
    ELSE [err |-> FALSE, filename |-> Base(reqs[r].file), body |-> Body(r)]

\* the locals filename and filebody of handleUploads
Filename(r) ==
    IF UploadCase(reqs[r]) = "put" THEN URLPath(reqs[r]) ELSE FormFile(r).filename
FileBody(r) ==
    IF UploadCase(reqs[r]) = "put" THEN Body(r) ELSE FormFile(r).body

\* filepath.Join(dir, filename)
Dest(r) == Join(Filename(r))

\* ServeHTTP: the delegate, if any, gets the request; handleUploads decides
\* whether it is an upload
Forward(r) ==
    /\ pc[r] = "delegate"
    /\ CASE Delegate = "nil" ->
              /\ pc' = [pc EXCEPT ![r] = "done"]
              /\ status' = [status EXCEPT ![r] = Returned(status[r])]
              /\ UNCHANGED <<served, err>>
         [] Delegate = "FileServer" ->
              /\ pc' = [pc EXCEPT ![r] = "done"]
              /\ status' = [status EXCEPT ![r] = FileServerStatus(reqs[r])]
              /\ served' = [served EXCEPT ![r] = <<"FileServer">>]
              /\ UNCHANGED err
         [] Delegate = "handleUploads" /\ UploadCase(reqs[r]) = "pass" ->
              /\ pc' = [pc EXCEPT ![r] = "done"]
              /\ status' = [status EXCEPT ![r] = FileServerStatus(reqs[r])]
              /\ served' = [served EXCEPT ![r] = <<"handleUploads", "FileServer">>]
              /\ UNCHANGED err
         [] Delegate = "handleUploads" /\ UploadCase(reqs[r]) = "form"
                                       /\ FormFile(r).err ->
              /\ pc' = [pc EXCEPT ![r] = "done"]
              /\ status' = [status EXCEPT ![r] = StatusBadRequest]
              /\ served' = [served EXCEPT ![r] = <<"handleUploads">>]
              /\ err' = [err EXCEPT ![r] = "FormFile"]
         [] OTHER ->
              /\ pc' = [pc EXCEPT ![r] = "create"]
              /\ served' = [served EXCEPT ![r] = <<"handleUploads">>]
              /\ UNCHANGED <<status, err>>
    /\ UNCHANGED <<flags, mux, reqs, tmpname, used, written, fs, Logger, enqueued,
                   rpc, cur, output>>

\* the names os.CreateTemp may pick: not in the directory, and not drawn before
FreshName(t) == fs[<<t>>] = NoFile /\ t \notin used

\* os.CreateTemp(dir, "lama-upload-*"): a new file under a name not in use
CreateTemp(r) ==
    /\ pc[r] = "create"
    /\ \E t \in TmpNames :
         /\ FreshName(t)
         /\ fs' = [fs EXCEPT ![<<t>>] = File(r)]
         /\ tmpname' = [tmpname EXCEPT ![r] = t]
         /\ used' = used \cup {t}
    /\ pc' = [pc EXCEPT ![r] = "copy"]
    /\ UNCHANGED <<flags, mux, reqs, status, err, served, written, Logger,
                   enqueued, rpc, cur, output>>

\* the names os.CreateTemp may pick when the random suffix may come out as
\* one drawn before: os.CreateTemp opens with O_EXCL, so the name is not in
\* the directory, and that is all that is known of it
NotThere(t) == fs[<<t>>] = NoFile

\* os.CreateTemp(dir, "lama-upload-*") with such a name
CreateTempAgain(r) ==
    /\ pc[r] = "create"
    /\ \E t \in TmpNames :
         /\ NotThere(t)
         /\ fs' = [fs EXCEPT ![<<t>>] = File(r)]
         /\ tmpname' = [tmpname EXCEPT ![r] = t]
         /\ used' = used \cup {t}
    /\ pc' = [pc EXCEPT ![r] = "copy"]
    /\ UNCHANGED <<flags, mux, reqs, status, err, served, written, Logger,
                   enqueued, rpc, cur, output>>

\* os.CreateTemp fails (the directory cannot be written): 500, no file
CreateTempFails(r) ==
    /\ pc[r] = "create"
    /\ status' = [status EXCEPT ![r] = StatusInternalServerError]
    /\ err' = [err EXCEPT ![r] = "CreateTemp"]
    /\ pc' = [pc EXCEPT ![r] = "done"]
    /\ UNCHANGED <<flags, mux, reqs, served, tmpname, used, written, fs, Logger, enqueued,
                   rpc, cur, output>>

\* a copy that ends after its first chunk
CopyCompleteEarly(r, n) == n >= 1

\* io.Copy has moved the whole body once every chunk is written
CopyComplete(r, n) == n = Len(FileBody(r))

\* io.Copy(tmpfile, filebody): one more chunk goes to the open temp file
Copy(r) ==
    /\ pc[r] = "copy"
    /\ written[r] < Len(FileBody(r))
    /\ written' = [written EXCEPT ![r] = written[r] + 1]
    /\ pc' = [pc EXCEPT ![r] = IF CopyComplete(r, written[r] + 1)
                               THEN "rename" ELSE "copy"]
    /\ UNCHANGED <<flags, mux, reqs, status, err, served, tmpname, used, fs, Logger,
                   enqueued, rpc, cur, output>>

\* an error of io.Copy that is ignored: the handler goes on to the rename
CopyFailsIgnored(r) ==
    /\ pc[r] = "copy"
    /\ pc' = [pc EXCEPT ![r] = "rename"]
    /\ UNCHANGED <<flags, mux, reqs, status, err, served, tmpname, used, written,
                   fs, Logger, enqueued, rpc, cur, output>>

\* io.Copy returns an error (the client went away, the disk is full)
CopyFails(r) ==
    /\ pc[r] = "copy"
    /\ status' = [status EXCEPT ![r] = StatusInternalServerError]
    /\ err' = [err EXCEPT ![r] = "Copy"]
    /\ pc' = [pc EXCEPT ![r] = "deferred"]
    /\ UNCHANGED <<flags, mux, reqs, served, tmpname, used, written, fs, Logger, enqueued,
                   rpc, cur, output>>

\* os.Rename(old, new) succeeds if old exists, new's directory exists and new
\* is no directory
RenameOk(old, new) ==
    fs[old] # NoFile /\ ParentExists(new) /\ ~IsDir(new)

\* a rename that leaves the old name in place
RenamedKeepsOld(old, new) == [fs EXCEPT ![new] = fs[old]]

\* a rename that does not replace a file that is there
RenamedUnlessThere(old, new) ==
    IF fs[new] # NoFile THEN fs
    ELSE [fs EXCEPT ![new] = fs[old], ![old] = NoFile]

\* the file system after os.Rename(old, new)
Renamed(old, new) ==
    IF old = new THEN fs
    ELSE [fs EXCEPT ![new] = fs[old], ![old] = NoFile]

\* os.Rename(tmpfile.Name(), filepath.Join(dir, filename))
Rename(r) ==
    /\ pc[r] = "rename"
    /\ IF RenameOk(<<tmpname[r]>>, Dest(r))
       THEN /\ fs' = Renamed(<<tmpname[r]>>, Dest(r))
            /\ UNCHANGED <<status, err>>
       ELSE /\ status' = [status EXCEPT ![r] = StatusInternalServerError]
            /\ err' = [err EXCEPT ![r] = "Rename"]
            /\ UNCHANGED fs
    /\ pc' = [pc EXCEPT ![r] = "deferred"]
    /\ UNCHANGED <<flags, mux, reqs, served, tmpname, used, written, Logger, enqueued,
                   rpc, cur, output>>

\* a remove that removes nothing
RemovedNothing(name) == fs

\* the file system after os.Remove(name)
Removed(name) == [fs EXCEPT ![name] = NoFile]

\* the deferred calls: os.Remove(tmpfile.Name()), tmpfile.Close(); then the
\* handler returns
Deferred(r) ==
    /\ pc[r] = "deferred"
    /\ fs' = Removed(<<tmpname[r]>>)
    /\ status' = [status EXCEPT ![r] = Returned(status[r])]
    /\ pc' = [pc EXCEPT ![r] = "done"]
    /\ UNCHANGED <<flags, mux, reqs, err, served, tmpname, used, written, Logger,
                   enqueued, rpc, cur, output>>

(***************************************************************************)
(* The renderer goroutine, logRequests.                                    *)
(***************************************************************************)
\* a receive that yields the newest buffered request
ReceivedNewest(q) == q[Len(q)]

\* the request a receive from the channel yields, and what stays buffered
Received(q) == Head(q)
Remaining(q) == Tail(q)

\* req := <-h.Logger
Recv ==
    /\ rpc = "recv"
    /\ Logger # <<>>
    /\ cur' = <<Received(Logger)>>
    /\ Logger' = Remaining(Logger)
    /\ rpc' = "print"
    /\ UNCHANGED <<flags, mux, reqs, pc, status, err, served, tmpname, used, written, fs,
                   enqueued, output>>

\* a line of output: what it is, the request it is about, and its value
Line(k, r, t) == [kind |-> k, req |-> r, text |-> t]

\* strings.HasPrefix, for a request URI given by its parts
HasPrefix(u, p) == Len(u) >= 1 /\ u[1] = p
absRequestURI(q) ==
    HasPrefix(q.head.requestURI, "http://") \/ HasPrefix(q.head.requestURI, "https://")

\* a Host line that is written whatever the request URI is
HostLineAlways(r) ==
    LET host == IF reqs[r].head.host = "" THEN reqs[r].head.urlhost
                ELSE reqs[r].head.host
    IN  IF host # "" THEN <<Line("host", r, host)>> ELSE <<>>

\* the Host line the loop writes to h.Writer, if any
HostLine(r) ==
    IF ~absRequestURI(reqs[r])
    THEN LET host == IF reqs[r].head.host = "" THEN reqs[r].head.urlhost
                     ELSE reqs[r].head.host
         IN  IF host # "" THEN <<Line("host", r, host)>> ELSE <<>>
    ELSE <<>>

\* the Transfer-Encoding line and the Connection: close line, if any
TransferEncodingLine(r) ==
    IF Len(reqs[r].head.te) > 0
    THEN <<Line("transfer-encoding", r, reqs[r].head.te)>> ELSE <<>>
ConnectionLine(r) ==
    IF reqs[r].head.close THEN <<Line("connection", r, "close")>> ELSE <<>>

\* range req.Header: the keys come in an order the Go runtime chooses
Orders(keys) ==
    {o \in [1..Cardinality(keys) -> keys] :
        \A i, j \in 1..Cardinality(keys) : i # j => o[i] # o[j]}
HeaderLines(r, order) == [i \in 1..Len(order) |-> Line("header", r, order[i])]

\* what one iteration writes to h.Writer, which h.Writer.Flush() puts out
Dump(r, order) ==
    HostLine(r) \o TransferEncodingLine(r) \o ConnectionLine(r)
        \o HeaderLines(r, order)

\* a loop body without the `continue` of the quiet mode
LinesAlwaysDumped(r, order) ==
    <<Line("summary", r, "")>> \o Dump(r, order) \o <<Line("blank", r, "")>>

\* the lines one iteration of the loop prints for request r
Lines(r, order) ==
    IF DumpRequest
    THEN <<Line("summary", r, "")>> \o Dump(r, order) \o <<Line("blank", r, "")>>
    ELSE <<Line("summary", r, "")>>

\* a renderer without the loop: it prints one request and returns
RenderOnce ==
    /\ rpc = "print"
    /\ \E order \in Orders(reqs[cur[1]].head.header) :
          output' = output \o Lines(cur[1], order)
    /\ cur' = NoReq
    /\ rpc' = "stalled"
    /\ UNCHANGED <<flags, mux, reqs, pc, status, err, served, tmpname, used, written, fs,
                   Logger, enqueued>>

\* the rest of the loop body: the summary line and the header dump
Render ==
    /\ rpc = "print"
    /\ \E order \in Orders(reqs[cur[1]].head.header) :
          output' = output \o Lines(cur[1], order)
    /\ cur' = NoReq
    /\ rpc' = "recv"
    /\ UNCHANGED <<flags, mux, reqs, pc, status, err, served, tmpname, used, written, fs,
                   Logger, enqueued>>

\* a write to standard output never returns (its reader has stopped): the
\* renderer receives nothing from now on
Stall ==
    /\ rpc = "print"
    /\ rpc' = "stalled"
    /\ UNCHANGED <<flags, mux, reqs, pc, status, err, served, tmpname, used, written, fs,
                   Logger, enqueued, cur, output>>

Next ==
    \/ \E r \in Reqs : Accept(r)
    \/ \E r \in Reqs : Send(r)
    \/ \E r \in Reqs : Forward(r)
    \/ \E r \in Reqs : CreateTemp(r)
    \/ \E r \in Reqs : CreateTempFails(r)
    \/ \E r \in Reqs : Copy(r)
    \/ \E r \in Reqs : CopyFails(r)
    \/ \E r \in Reqs : Rename(r)
    \/ \E r \in Reqs : Deferred(r)
    \/ Recv
    \/ Render
    \/ Stall

Spec == Init /\ [][Next]_vars

\* the steps of a run in which every write to standard output returns
NextFair ==
    \/ \E r \in Reqs : Accept(r)
    \/ \E r \in Reqs : Send(r)
    \/ \E r \in Reqs : Forward(r)
    \/ \E r \in Reqs : CreateTemp(r)
    \/ \E r \in Reqs : CreateTempFails(r)
    \/ \E r \in Reqs : Copy(r)
    \/ \E r \in Reqs : CopyFails(r)
    \/ \E r \in Reqs : Rename(r)
    \/ \E r \in Reqs : Deferred(r)
    \/ Recv
    \/ Render

\* the program when a random suffix may come out twice in one run
NextReuse ==
    \/ \E r \in Reqs : Accept(r)
    \/ \E r \in Reqs : Send(r)
    \/ \E r \in Reqs : Forward(r)
    \/ \E r \in Reqs : CreateTempAgain(r)
    \/ \E r \in Reqs : CreateTempFails(r)
    \/ \E r \in Reqs : Copy(r)
    \/ \E r \in Reqs : CopyFails(r)
    \/ \E r \in Reqs : Rename(r)
    \/ \E r \in Reqs : Deferred(r)
    \/ Recv
    \/ Render
    \/ Stall

SpecReuse == Init /\ [][NextReuse]_vars

\* the next step of the goroutine that handles request r
HandlerStep(r) ==
    /\ r \in Reqs
    /\ \/ Accept(r)
       \/ Send(r)
       \/ Forward(r)
       \/ CreateTemp(r)
       \/ CreateTempFails(r)
       \/ Copy(r)
       \/ CopyFails(r)
       \/ Rename(r)
       \/ Deferred(r)

\* the Go scheduler: a goroutine that can run is run in the end, the renderer
\* goroutine as well as the goroutine of each connection
Fairness ==
    /\ WF_vars(Recv)
    /\ WF_vars(Render)
    /\ \A r \in 1..MaxBurst : WF_vars(HandlerStep(r))

FairSpec == Init /\ [][NextFair]_vars /\ Fairness

\* the types of the variables
TypeOK ==
    /\ flags \in Flags
    /\ mux \in {"go121", "go122"}
    /\ reqs \in Scenarios
    /\ used \subseteq TmpNames
    /\ Len(Logger) <= QueueCap
    /\ \A r \in Reqs : written[r] \in 0..BodyLen

(***************************************************************************)
(* Properties of the request log (Logger channel and renderer).            *)
(***************************************************************************)
\* the requests of the summary lines printed so far, in order
Summaries ==
    LET S == SelectSeq(output, LAMBDA l : l.kind = "summary")
    IN  [i \in 1..Len(S) |-> S[i].req]

\* the requests debugHandler.ServeHTTP has sent on the channel
Sent == {r \in Reqs : pc[r] \notin {"new", "send"} /\ served[r] # <<"redirect">>}

\* C1: the summary lines printed, then the request being printed, then the
\* requests still buffered are exactly the requests in the order their sends
\* completed, each request once: no request is rendered twice, skipped or
\* reordered, and once the channel is drained N requests gave N summary lines.
C1_RenderedInEnqueueOrder ==
    /\ Summaries \o cur \o Logger = enqueued
    /\ {enqueued[i] : i \in 1..Len(enqueued)} = Sent
    /\ Len(enqueued) = Cardinality(Sent)

\* two concurrent requests were enqueued against their arrival numbers and
\* both rendered
C1_Witness ==
    /\ Summaries = <<2, 1>>
    /\ Logger = <<>>
    /\ \A r \in Reqs : pc[r] = "done"

\* C2: the channel never buffers more than 10 requests, and while it buffers
\* 10 a step that is not the renderer's receive leaves the buffer as it is and
\* leaves every handler that waits at the send waiting there: the send does not
\* complete, nothing is dropped or overwritten.
C2_FullQueueBlocks ==
    /\ [](Len(Logger) <= QueueCap)
    /\ [][(Len(Logger) = QueueCap /\ Logger' # Tail(Logger))
            => /\ Logger' = Logger
               /\ enqueued' = enqueued
               /\ \A r \in Reqs : pc[r] = "send" => pc'[r] = "send"]_vars

\* the buffer is full and a handler waits at the send
C2_Witness ==
    /\ Len(Logger) = QueueCap
    /\ \E r \in Reqs : pc[r] = "send"

(***************************************************************************)
(* Properties of the uploads.                                              *)
(***************************************************************************)
\* the places a client can name, as opposed to the temporary files
VisibleLocs == Locations \ {<<t>> : t \in TmpNames}

C4_ServingSurvivesRendererStop ==
    rpc = "stalled" => \A r \in Reqs : pc[r] = "send" => CanSend

\* C5: no file is ever created or replaced outside the target directory.
C5_UploadConfined ==
    \A l \in Locations : ~InsideDir(l) => fs[l] = NoFile

\* C6: with uploads enabled, a POST with multipart form content (a Content-Type
\* with its boundary) and a file field named file is taken as a form upload:
\* when its handler has returned it was not forwarded to the file server and
\* not rejected, and the declared name holds the whole content of an upload.
C6_FormUploadStored ==
    \A r \in Reqs :
        ( /\ Delegate = "handleUploads"
          /\ reqs[r].method = "POST"
          /\ reqs[r].ct = MultipartBoundary
          /\ reqs[r].file # <<>>
          /\ pc[r] = "done" )
        => /\ served[r] = <<"handleUploads">>
           /\ status[r] = StatusOK
           /\ \E o \in Reqs : /\ fs[Join(Base(reqs[r].file))] = File(o)
                              /\ written[o] = BodyLen

C8_CopyFailureCleansUp ==
    /\ [](\A r \in Reqs : err[r] = "Copy" =>
             /\ status[r] = StatusInternalServerError
             /\ \A l \in VisibleLocs : fs[l] # File(r))
    /\ [][\A r \in Reqs :
            /\ (pc[r] = "copy" /\ pc'[r] # "copy" /\ written'[r] < BodyLen)
               => /\ err'[r] = "Copy"
                  /\ status'[r] = StatusInternalServerError
                  /\ fs' = fs
            /\ (err[r] = "Copy" /\ pc[r] # "done" /\ pc'[r] = "done")
               => /\ fs'[<<tmpname[r]>>] = NoFile
                  /\ \A l \in Locations : fs'[l] # File(r)
                  /\ fs'[Dest(r)] = fs[Dest(r)]
                  /\ status'[r] = StatusInternalServerError]_vars

\* an upload to the old foo.txt failed half way through its copy and its
\* handler has returned
C8_Witness ==
    \E r \in Reqs :
        /\ err[r] = "Copy"
        /\ pc[r] = "done"
        /\ written[r] = 1
        /\ Dest(r) = Foo
        /\ fs[Foo] = OldFile

\* C9: once the handler of an upload that created its temporary file has
\* returned, no temporary name holds a file of that request, whichever way it
\* ended; after a failed copy or rename the status is 500 and no file of the
\* request is left at all.
C9_TempRemovedOnEveryExit ==
    \A r \in Reqs :
        (pc[r] = "done" /\ tmpname[r] # "")
        => /\ fs[<<tmpname[r]>>] # File(r)
           /\ \A t \in TmpNames : fs[<<t>>] # File(r)
           /\ err[r] \in {"Copy", "Rename"}
              => /\ status[r] = StatusInternalServerError
                 /\ \A l \in Locations : fs[l] # File(r)
           /\ err[r] = "" => status[r] = StatusOK

\* the rename of a completely copied upload failed and its handler has returned
C9_Witness ==
    \E r \in Reqs :
        /\ err[r] = "Rename"
        /\ pc[r] = "done"
        /\ written[r] = BodyLen
        /\ tmpname[r] # ""

\* C10: a request that a delegate has started or finished handling has been
\* sent on the channel before; and with --dont-serve (no delegate) a handler
\* is only ever at the send or returning from it, passes the request to no
\* handler, creates no temporary file, answers 200, and no step changes a file.
C10_EnqueueBeforeDelegate ==
    /\ [](\A r \in Reqs :
            /\ (pc[r] \in {"create", "copy", "rename", "deferred"}
                \/ (served[r] # <<>> /\ served[r] # <<"redirect">>))
               => \E i \in 1..Len(enqueued) : enqueued[i] = r
            /\ flags.dontServe
               => /\ pc[r] \in {"new", "send", "delegate", "done"}
                  /\ served[r] \in {<<>>, <<"redirect">>}
                  /\ tmpname[r] = ""
                  /\ (pc[r] = "done" /\ served[r] = <<>>)
                     => /\ status[r] = StatusOK
                        /\ \E i \in 1..Len(enqueued) : enqueued[i] = r)
    /\ [][flags.dontServe => fs' = fs]_vars

\* with --dont-serve and --enable-upload a PUT has been sent on the channel
\* and answered, while the old foo.txt is still in place
C10_Witness ==
    /\ flags.dontServe
    /\ flags.enableUpload
    /\ fs[Foo] = OldFile
    /\ \E r \in Reqs : /\ reqs[r].method = "PUT"
                       /\ reqs[r].path = Foo
                       /\ pc[r] = "done"
                       /\ served[r] = <<>>
                       /\ status[r] = StatusOK

(***************************************************************************)
(* Blocking at the two ends of the channel.                                *)
(***************************************************************************)
\* C11: a handler at its send can take the step exactly when the channel
\* holds fewer than QueueCap requests, whatever the renderer is doing (the
\* send changes nothing of the renderer); and the renderer at its receive can
\* take the step exactly when the channel is not empty.
C11_BlockedOnlyWhenFullOrEmpty ==
    /\ \A r \in Reqs :
          pc[r] = "send" => ((ENABLED Send(r)) <=> Len(Logger) < QueueCap)
    /\ rpc = "recv" => ((ENABLED Recv) <=> Logger # <<>>)

\* a handler is at its send while the channel holds some requests, but fewer
\* than QueueCap, and the renderer has stopped taking steps
C11_Witness ==
    /\ rpc = "stalled"
    /\ Len(Logger) > 0
    /\ Len(Logger) < QueueCap
    /\ \E r \in Reqs : pc[r] = "send"

(***************************************************************************)
(* Progress under a fair scheduler.                                        *)
(***************************************************************************)
\* every request of the run has got its response, and every request that was
\* sent on the channel has had its lines printed
AllAnswered == \A r \in Reqs : pc[r] = "done"
AllRendered ==
    /\ Logger = <<>>
    /\ rpc = "recv"
    /\ \A i \in 1..Len(enqueued) :
          \E j \in 1..Len(Summaries) : Summaries[j] = enqueued[i]

\* C12: when the scheduler is fair to the renderer and to the handlers, the
\* run reaches a state in which no handler waits at its send any more, every
\* request sent on the channel has its summary line printed, and every
\* request has been passed to its delegate and answered.
C12_EveryRequestRenderedAndForwarded ==
    <>(AllAnswered /\ AllRendered /\ \A r \in Reqs : r \in Sent \/ served[r] = <<"redirect">>)

\* a handler waits at its send on the full channel, after the renderer has
\* printed a request and gone back to its receive
C12_Witness ==
    /\ rpc = "recv"
    /\ Len(Logger) = QueueCap
    /\ Len(output) > 0
    /\ \E r \in Reqs : pc[r] = "send"

(***************************************************************************)
(* The startup options and the upload handler.                             *)
(***************************************************************************)
\* C13: with --enable-upload every PUT that ServeHTTP has answered was handled
\* as an upload by handleUploads (and by no file server), whatever the other
\* options are; and without --enable-upload the directory holds no file other
\* than the ones it held at the start.
C13_UploadWheneverEnabled ==
    /\ flags.enableUpload
         => \A r \in Reqs :
               (reqs[r].method = "PUT" /\ pc[r] = "done"
                                       /\ served[r] # <<"redirect">>)
               => /\ served[r] = <<"handleUploads">>
                  /\ (err[r] = "" => status[r] = StatusOK)
    /\ ~flags.enableUpload
         => \A l \in Locations : fs[l] \in {NoFile, OldFile}

\* a POST that handleUploads takes for a form upload, and whose form has no
\* file field that can be read: the field is missing, or the body cannot be
\* parsed as the Content-Type names no boundary
BadForm(q) ==
    /\ q.method = "POST"
    /\ q.ct = MultipartBare
    /\ (q.file = <<>> \/ q.ct # MultipartBoundary)

NoUpload(q) ==
    /\ q.method # "PUT"
    /\ ~(q.method = "POST" /\ q.ct \in {MultipartBare, MultipartBoundary})

\* C15: once handleUploads has got a request that is neither a PUT nor a
\* multipart POST, the request has been passed on to the file server, once,
\* as it came, and answered by it, with no temporary file created for it; and
\* the step in which it is handled changes no file and no request.
C15_OtherRequestsPassThrough ==
    /\ [](\A r \in Reqs :
            (Delegate = "handleUploads" /\ NoUpload(reqs[r])
                /\ pc[r] \notin {"new", "send", "delegate"}
                /\ served[r] # <<"redirect">>)
            => /\ pc[r] = "done"
               /\ served[r] = <<"handleUploads", "FileServer">>
               /\ status[r] \in {StatusOK, StatusNotFound}
               /\ err[r] = ""
               /\ tmpname[r] = "")
    /\ [][\A r \in Reqs :
            (NoUpload(reqs[r]) /\ pc[r] = "delegate" /\ pc'[r] # "delegate")
            => (fs' = fs /\ reqs' = reqs)]_vars

\* with uploads enabled a GET and a POST of plain text have both been
\* answered by the file server behind handleUploads
C15_Witness ==
    /\ Delegate = "handleUploads"
    /\ \E r, o \in Reqs :
          /\ reqs[r].method = "GET"
          /\ reqs[o].method = "POST"
          /\ NoUpload(reqs[o])
          /\ served[r] = <<"handleUploads", "FileServer">>
          /\ served[o] = <<"handleUploads", "FileServer">>

\* C16: when two uploads to the same name were handled one after the other
\* (the second request was read after the first was answered) and both went
\* through, the name leads to the file of the second with the whole body of
\* the second, the file of the first is nowhere any more, and no other place
\* holds a file.
C16_SecondUploadWins ==
    \A o, r \in Reqs :
       (/\ o < r
        /\ reqs[o].conn = reqs[r].conn
        /\ Delegate = "handleUploads"
        /\ UploadCase(reqs[o]) = "put"
        /\ UploadCase(reqs[r]) = "put"
        /\ reqs[o].path = reqs[r].path
        /\ pc[o] = "done" /\ pc[r] = "done"
        /\ served[o] = <<"handleUploads">> /\ served[r] = <<"handleUploads">>
        /\ err[o] = "" /\ err[r] = "")
       => /\ status[o] = StatusOK
          /\ status[r] = StatusOK
          /\ fs[Dest(r)] = File(r)
          /\ Content(fs[Dest(r)]) = Body(r)
          /\ \A l \in Locations : l # Dest(r) => fs[l] = NoFile

\* foo.txt was there, and two PUTs of foo.txt over one connection have both
\* been answered with 200
C16_Witness ==
    /\ \E o, r \in Reqs :
          /\ o < r
          /\ reqs[o].conn = reqs[r].conn
          /\ reqs[o].method = "PUT" /\ reqs[r].method = "PUT"
          /\ reqs[o].path = Foo /\ reqs[r].path = Foo
          /\ pc[r] = "done"
          /\ err[o] = "" /\ err[r] = ""
          /\ tmpname[o] # "" /\ tmpname[r] # ""
          /\ fs[Foo] = File(r)

(***************************************************************************)
(* The temporary files of uploads that run at the same time.               *)
(***************************************************************************)
\* C17: while an upload copies or is about to rename, its temporary name
\* leads to the file it created; and a step in which a handler renames or
\* runs its deferred removal changes, among the temporary names, only one
\* that leads to the file this handler created.
C17_OwnTempOnly ==
    /\ [](\A r \in Reqs :
            pc[r] \in {"copy", "rename"} => fs[<<tmpname[r]>>] = File(r))
    /\ [][\A r \in Reqs :
            (pc[r] \in {"rename", "deferred"} /\ pc'[r] # pc[r])
            => \A t \in TmpNames :
                  fs'[<<t>>] # fs[<<t>>] => fs[<<t>>] = File(r)]_vars

(***************************************************************************)
(* The lines the renderer prints.                                          *)
(***************************************************************************)
\* the places of the lines of the given kind between two places of the output
Between(i, j, k) == {n \in (i + 1)..(j - 1) : output[n].kind = k}

\* C18: the output is a row of blocks, one for each request rendered. In
\* quiet mode a block is the summary line alone, so no other line exists. In
\* dump mode a block is the summary line, then lines of that same request
\* only, among them one line for each key of its header, then its blank
\* line; and the next line after a blank line is the next summary line.
C18_OneRequestAtATime ==
    /\ output # <<>> => output[1].kind = "summary"
    /\ \A i, j \in 1..Len(output) :
          (i # j /\ output[i].kind = "summary" /\ output[j].kind = "summary")
          => output[i].req # output[j].req
    /\ \A i \in 1..Len(output) :
          /\ ~DumpRequest => output[i].kind = "summary"
          /\ (DumpRequest /\ i > 1 /\ output[i].kind = "summary")
             => output[i - 1].kind = "blank"
          /\ (DumpRequest /\ output[i].kind = "summary")
             => \E j \in (i + 1)..Len(output) :
                   /\ output[j].kind = "blank"
                   /\ \A n \in i..j : output[n].req = output[i].req
                   /\ \A n \in (i + 1)..(j - 1) :
                         output[n].kind \notin {"summary", "blank"}
                   /\ {output[n].text : n \in Between(i, j, "header")}
                         = reqs[output[i].req].head.header
                   /\ Cardinality(Between(i, j, "header"))
                         = Cardinality(reqs[output[i].req].head.header)
                   /\ j < Len(output) => output[j + 1].kind = "summary"

\* in dump mode two requests have been rendered, the first of them with a
\* Host line, a Transfer-Encoding line, a Connection line and two header lines
C18_Witness ==
    /\ DumpRequest
    /\ Len(Summaries) = 2
    /\ Len(output) = 11
    /\ output[2].kind = "host"
    /\ output[5].kind = "header"
    /\ output[6].kind = "header"
    /\ output[7].kind = "blank"
    /\ output[8].kind = "summary"

\* request r has been rendered; it has a line of kind k in the output
Rendered(r) == \E i \in 1..Len(output) : output[i] = Line("summary", r, "")
LinesOf(r, k) == {i \in 1..Len(output) : output[i].req = r /\ output[i].kind = k}

\* the host the Host line is to show: req.Host, or else the authority of the URL
ChosenHost(q) == IF q.head.host # "" THEN q.head.host ELSE q.head.urlhost

\* C20: in dump mode the lines of a rendered request contain a Host line
\* exactly if the request URI does not start with http:// or https:// and
\* the chosen host is not empty, and the line shows that host; a
\* Transfer-Encoding line exactly if the list of transfer encodings is not
\* empty; a Connection: close line exactly if the close flag is set; and
\* none of them twice.
C20_ConditionalLines ==
    DumpRequest =>
       \A r \in Reqs :
          Rendered(r) =>
            /\ (LinesOf(r, "host") # {})
                  <=> (/\ reqs[r].head.requestURI[1] \notin {"http://", "https://"}
                       /\ ChosenHost(reqs[r]) # "")
            /\ \A i \in LinesOf(r, "host") : output[i].text = ChosenHost(reqs[r])
            /\ (LinesOf(r, "transfer-encoding") # {}) <=> (reqs[r].head.te # <<>>)
            /\ (LinesOf(r, "connection") # {}) <=> reqs[r].head.close
            /\ \A i \in LinesOf(r, "connection") : output[i].text = "close"
            /\ \A k \in {"host", "transfer-encoding", "connection"} :
                  Cardinality(LinesOf(r, k)) <= 1

\* in dump mode a request with an absolute URI, whose host is known, with a
\* transfer encoding and the close flag has been rendered: no Host line, but
\* the other two
C20_Witness ==
    /\ DumpRequest
    /\ \E r \in Reqs :
          /\ Rendered(r)
          /\ reqs[r].head.requestURI[1] = "https://"
          /\ reqs[r].head.host # ""
          /\ reqs[r].head.close
          /\ LinesOf(r, "host") = {}
          /\ LinesOf(r, "transfer-encoding") # {}
          /\ LinesOf(r, "connection") # {}

====
